---- MODULE Spec2Model ----
(***************************************************************************)
(* ARATS configuration management (src/aratsconfig.py).                    *)
(*                                                                         *)
(* The module models the four pydantic schemas (FirebaseConfig,            *)
(* ExchangeConfig, RiskConfig, ARATSConfig) as validating constructors and *)
(* load_config as a sequential program over the process environment and    *)
(* the local filesystem.                                                   *)
(*                                                                         *)
(* Conventions                                                             *)
(*  - Python None is the record None; Optional[str] values read from the   *)
(*    environment are Unset (<<>>) or Some(v) (<<v>>).                      *)
(*  - Strings that the code only compares are TLA+ strings; strings that   *)
(*    the code converts (str.lower, int) are sequences of characters.      *)
(*  - The risk percentages are in thousandths (0.02 is 20).                *)
(***************************************************************************)
EXTENDS Integers, Sequences, FiniteSets, TLC

VARIABLES
    env,              \* os.environ as seen by os.getenv
    files,            \* paths for which os.path.exists is true
    pc,               \* position inside load_config
    firebase_config,  \* local of load_config
    exchange_config,  \* local of load_config
    risk_config,      \* local of load_config
    refresh_arg,      \* Some(int(os.getenv('DATA_REFRESH_INTERVAL', '60'))) once evaluated
    recalc_arg,       \* Some(int(os.getenv('RISK_RECALC_INTERVAL', '300'))) once evaluated
    config,           \* local of load_config
    outcome,          \* what the caller of load_config receives
    log,              \* entries emitted through the structlog logger
    obj,              \* an entity held by a client of the schema classes
    last,             \* the client's last call on the schema classes
    assigned,         \* number of field assignments the client has made
    raw,              \* an environment value handed to the parsing expressions
    parsed            \* the value the parsing expression produced

vars == <<env, files, pc, firebase_config, exchange_config, risk_config,
          refresh_arg, recalc_arg, config, outcome, log, obj, last, assigned,
          raw, parsed>>

loadVars == <<env, files, pc, firebase_config, exchange_config, risk_config,
              refresh_arg, recalc_arg, config, outcome>>

None == [type |-> "None"]
Unset == <<>>
Some(v) == <<v>>

-----------------------------------------------------------------------------
(* Bounds of the model *)

MaxStrLen == 4
MaxAssign == 1

-----------------------------------------------------------------------------
(* Python built-ins used by load_config *)

\* os.getenv(name, default): the value when set, the default otherwise
Getenv(e, name, default) == IF e[name] = Unset THEN default ELSE e[name][1]

UpperCase == <<"A", "B", "C", "D", "E", "F", "G", "H", "I", "J", "K", "L", "M",
               "N", "O", "P", "Q", "R", "S", "T", "U", "V", "W", "X", "Y", "Z">>

LowerCase == <<"a", "b", "c", "d", "e", "f", "g", "h", "i", "j", "k", "l", "m",
               "n", "o", "p", "q", "r", "s", "t", "u", "v", "w", "x", "y", "z">>

\* str.lower on one character
LowerChar(c) ==
    IF \E i \in 1..Len(UpperCase) : UpperCase[i] = c
    THEN LowerCase[CHOOSE i \in 1..Len(UpperCase) : UpperCase[i] = c]
    ELSE c

\* str.lower
Lower(s) == [i \in 1..Len(s) |-> LowerChar(s[i])]

\* the comparison without the call of lower
ParseBool_CaseSensitive(s) == s = <<"t", "r", "u", "e">>

\* the expression  <value>.lower() == 'true'
ParseBool(s) == Lower(s) = <<"t", "r", "u", "e">>

Digits == {"0", "1", "2", "3", "4", "5", "6", "7", "8", "9"}

DigitVal(c) ==
    CASE c = "0" -> 0 [] c = "1" -> 1 [] c = "2" -> 2 [] c = "3" -> 3
      [] c = "4" -> 4 [] c = "5" -> 5 [] c = "6" -> 6 [] c = "7" -> 7
      [] c = "8" -> 8 [] c = "9" -> 9

RECURSIVE LStrip(_)
LStrip(s) == IF s # <<>> /\ Head(s) = " " THEN LStrip(Tail(s)) ELSE s

RECURSIVE RStrip(_)
RStrip(s) ==
    IF s # <<>> /\ s[Len(s)] = " " THEN RStrip(SubSeq(s, 1, Len(s) - 1)) ELSE s

\* value of a digit string that may hold underscores, most significant first
RECURSIVE DigitsValue(_, _)
DigitsValue(s, acc) ==
    IF s = <<>> THEN acc
    ELSE IF Head(s) = "_" THEN DigitsValue(Tail(s), acc)
    ELSE DigitsValue(Tail(s), 10 * acc + DigitVal(Head(s)))

\* digits with single underscores between them
DigitPartOk(d) ==
    /\ d # <<>>
    /\ \A i \in 1..Len(d) : d[i] \in Digits \cup {"_"}
    /\ d[1] \in Digits
    /\ d[Len(d)] \in Digits
    /\ \A i \in 1..(Len(d) - 1) : ~(d[i] = "_" /\ d[i + 1] = "_")

\* int(s) with the ValueError swallowed and 0 returned in its place
IntParse_Lenient(s) ==
    LET body == RStrip(LStrip(s))
        signed == body # <<>> /\ Head(body) \in {"+", "-"}
        d == IF signed THEN Tail(body) ELSE body
        magnitude == DigitsValue(d, 0)
    IN IF DigitPartOk(d)
       THEN [ok |-> TRUE,
             value |-> IF signed /\ Head(body) = "-" THEN 0 - magnitude ELSE magnitude]
       ELSE [ok |-> TRUE, value |-> 0]

\* int(s) on a str, base 10: surrounding whitespace is stripped, one sign is
\* allowed, the rest must be digits; anything else raises ValueError
IntParse(s) ==
    LET body == RStrip(LStrip(s))
        signed == body # <<>> /\ Head(body) \in {"+", "-"}
        d == IF signed THEN Tail(body) ELSE body
        magnitude == DigitsValue(d, 0)
    IN IF DigitPartOk(d)
       THEN [ok |-> TRUE,
             value |-> IF signed /\ Head(body) = "-" THEN 0 - magnitude ELSE magnitude]
       ELSE [ok |-> FALSE, error |-> [kind |-> "ValueError", fields |-> {}]]

-----------------------------------------------------------------------------
(* The schema classes: a constructor call is a pure function of its keyword *)
(* arguments (and of the filesystem, for FirebaseConfig).  kw is a function *)
(* whose domain is the set of keywords given.                               *)

Arg(kw, name, default) == IF name \in DOMAIN kw THEN kw[name] ELSE default

Ok(v) == [ok |-> TRUE, value |-> v, logs |-> <<>>]
Fail(kind, fields, logs) ==
    [ok |-> FALSE, error |-> [kind |-> kind, fields |-> fields], logs |-> logs]

DefaultCredentialsPath == "credentials/firebase_service_account.json"

\* the validator without its logger.warning call
validate_credentials_path_Silent(v, fileset) ==
    IF v \notin fileset
    THEN Fail("FileNotFoundError", {"credentials_path"}, <<>>)
    ELSE Ok(v)

\* validator of credentials_path: os.path.exists, a warning, FileNotFoundError
validate_credentials_path(v, fileset) ==
    IF v \notin fileset
    THEN Fail("FileNotFoundError", {"credentials_path"},
              << [level |-> "warning",
                  event |-> "Firebase credentials file not found",
                  path |-> v] >>)
    ELSE Ok(v)

\* FirebaseConfig(**kw).  The validator runs on a credentials_path that is
\* given (pydantic does not validate a default); its FileNotFoundError is no
\* ValueError, so it leaves the constructor as it is.
FirebaseConfig(kw, fileset) ==
    LET checked == IF "credentials_path" \in DOMAIN kw
                   THEN validate_credentials_path(kw["credentials_path"], fileset)
                   ELSE Ok(DefaultCredentialsPath)
    IN IF ~checked.ok THEN checked
       ELSE IF "project_id" \notin DOMAIN kw
       THEN Fail("ValidationError", {"project_id"}, <<>>)
       ELSE Ok([type |-> "FirebaseConfig",
                project_id |-> kw["project_id"],
                credentials_path |-> checked.value,
                firestore_collection |-> Arg(kw, "firestore_collection", "arats_trading_data"),
                realtime_database_ref |-> Arg(kw, "realtime_database_ref", "arats/state")])

ExchangeIds == {"binance", "coinbase", "kraken", "bybit"}

\* ExchangeConfig with exchange_id declared str
ExchangeConfig_Unchecked(kw) ==
    Ok([type |-> "ExchangeConfig",
        exchange_id |-> Arg(kw, "exchange_id", "binance"),
        api_key |-> Arg(kw, "api_key", Unset),
        api_secret |-> Arg(kw, "api_secret", Unset),
        sandbox_mode |-> Arg(kw, "sandbox_mode", TRUE),
        rate_limit |-> Arg(kw, "rate_limit", 1000),
        timeout |-> Arg(kw, "timeout", 30000)])

\* ExchangeConfig with ge=0 on rate_limit and timeout
ExchangeConfig_NonNegative(kw) ==
    LET exchange_id == Arg(kw, "exchange_id", "binance")
        bad == (IF exchange_id \notin {"binance", "coinbase", "kraken", "bybit"}
                THEN {"exchange_id"} ELSE {})
               \cup {n \in {"rate_limit", "timeout"} : Arg(kw, n, 0) < 0}
    IN IF bad # {}
       THEN Fail("ValidationError", bad, <<>>)
       ELSE Ok([type |-> "ExchangeConfig",
                exchange_id |-> exchange_id,
                api_key |-> Arg(kw, "api_key", Unset),
                api_secret |-> Arg(kw, "api_secret", Unset),
                sandbox_mode |-> Arg(kw, "sandbox_mode", TRUE),
                rate_limit |-> Arg(kw, "rate_limit", 1000),
                timeout |-> Arg(kw, "timeout", 30000)])

\* ExchangeConfig(**kw): exchange_id is a Literal; nothing else is constrained
ExchangeConfig(kw) ==
    LET exchange_id == Arg(kw, "exchange_id", "binance")
    IN IF exchange_id \notin ExchangeIds
       THEN Fail("ValidationError", {"exchange_id"}, <<>>)
       ELSE Ok([type |-> "ExchangeConfig",
                exchange_id |-> exchange_id,
                api_key |-> Arg(kw, "api_key", Unset),
                api_secret |-> Arg(kw, "api_secret", Unset),
                sandbox_mode |-> Arg(kw, "sandbox_mode", TRUE),
                rate_limit |-> Arg(kw, "rate_limit", 1000),
                timeout |-> Arg(kw, "timeout", 30000)])

\* Field(default, ge=, le=) of the five risk percentages, in thousandths
RiskFields ==
    [max_position_size_pct |-> [default |-> 20,  ge |-> 1,   le |-> 100],
     max_daily_loss_pct    |-> [default |-> 50,  ge |-> 10,  le |-> 200],
     var_confidence_level  |-> [default |-> 950, ge |-> 900, le |-> 990],
     stop_loss_pct         |-> [default |-> 20,  ge |-> 5,   le |-> 100],
     take_profit_pct       |-> [default |-> 40,  ge |-> 10,  le |-> 200]]

RiskFieldNames == DOMAIN RiskFields

\* default_factory of stress_test_scenarios, in thousandths
DefaultScenarios ==
    [flash_crash |-> -150, volatility_spike |-> 300, liquidity_crisis |-> -250]

\* the check with gt/lt in the place of ge/le
InRange_Exclusive(name, v) == RiskFields[name].ge < v /\ v < RiskFields[name].le

\* the ge/le check of one Field
InRange(name, v) == RiskFields[name].ge <= v /\ v <= RiskFields[name].le

\* RiskConfig(**kw): every field out of its range is reported
RiskConfig(kw) ==
    LET val(name) == Arg(kw, name, RiskFields[name].default)
        bad == {name \in RiskFieldNames : ~InRange(name, val(name))}
    IN IF bad # {}
       THEN Fail("ValidationError", bad, <<>>)
       ELSE Ok([type |-> "RiskConfig",
                max_position_size_pct |-> val("max_position_size_pct"),
                max_daily_loss_pct |-> val("max_daily_loss_pct"),
                var_confidence_level |-> val("var_confidence_level"),
                stress_test_scenarios |-> Arg(kw, "stress_test_scenarios", DefaultScenarios),
                stop_loss_pct |-> val("stop_loss_pct"),
                take_profit_pct |-> val("take_profit_pct")])

LoggingLevels == {"DEBUG", "INFO", "WARNING", "ERROR"}

\* ARATSConfig(**kw): the three components are required, logging_level is a
\* Literal; class Config (env_prefix, case_sensitive) changes nothing on a
\* BaseModel
ARATSConfig(kw) ==
    LET logging_level == Arg(kw, "logging_level", "INFO")
        missing == {"firebase", "exchange", "risk"} \ DOMAIN kw
        bad == missing \cup (IF logging_level \notin LoggingLevels
                             THEN {"logging_level"} ELSE {})
    IN IF bad # {}
       THEN Fail("ValidationError", bad, <<>>)
       ELSE Ok([type |-> "ARATSConfig",
                firebase |-> kw["firebase"],
                exchange |-> kw["exchange"],
                risk |-> kw["risk"],
                data_refresh_interval |-> Arg(kw, "data_refresh_interval", 60),
                risk_recalc_interval |-> Arg(kw, "risk_recalc_interval", 300),
                logging_level |-> logging_level,
                ml_model_path |-> Arg(kw, "ml_model_path", "models/risk_model.pkl"),
                feature_window |-> Arg(kw, "feature_window", 50),
                enable_live_trading |-> Arg(kw, "enable_live_trading", FALSE),
                enable_hedging |-> Arg(kw, "enable_hedging", TRUE)])

-----------------------------------------------------------------------------
(* load_config *)

Pending == [kind |-> "pending"]
Returned(v) == [kind |-> "return", value |-> v]
Raised(e) == [kind |-> "raise", error |-> e]

EnvNames == {"FIREBASE_PROJECT_ID", "FIREBASE_CREDENTIALS_PATH", "EXCHANGE_API_KEY",
             "EXCHANGE_API_SECRET", "EXCHANGE_SANDBOX", "DATA_REFRESH_INTERVAL",
             "RISK_RECALC_INTERVAL", "LOGGING_LEVEL", "ENABLE_LIVE_TRADING"}

\* the keyword arguments of the FirebaseConfig call
FirebaseArgs(e) ==
    [project_id |-> Getenv(e, "FIREBASE_PROJECT_ID", "arats-dev"),
     credentials_path |-> Getenv(e, "FIREBASE_CREDENTIALS_PATH", DefaultCredentialsPath)]

\* the keyword arguments of the ExchangeConfig call
ExchangeArgs(e) ==
    [api_key |-> e["EXCHANGE_API_KEY"],
     api_secret |-> e["EXCHANGE_API_SECRET"],
     sandbox_mode |-> ParseBool(Getenv(e, "EXCHANGE_SANDBOX", <<"T", "r", "u", "e">>))]

\* int(os.getenv('DATA_REFRESH_INTERVAL', '60'))
RefreshArg(e) == IntParse(Getenv(e, "DATA_REFRESH_INTERVAL", <<"6", "0">>))

\* int(os.getenv('RISK_RECALC_INTERVAL', '300'))
RecalcArg(e) == IntParse(Getenv(e, "RISK_RECALC_INTERVAL", <<"3", "0", "0">>))

\* os.getenv('ENABLE_LIVE_TRADING', 'False').lower() == 'true'
LiveTradingArg(e) ==
    ParseBool(Getenv(e, "ENABLE_LIVE_TRADING", <<"F", "a", "l", "s", "e">>))

\* the keyword arguments of the ARATSConfig call
MainArgs(e, fb, ex, rk, refresh, recalc) ==
    [firebase |-> fb,
     exchange |-> ex,
     risk |-> rk,
     data_refresh_interval |-> refresh,
     risk_recalc_interval |-> recalc,
     logging_level |-> Getenv(e, "LOGGING_LEVEL", "INFO"),
     enable_live_trading |-> LiveTradingArg(e)]

\* the value of the final return statement
ReturnValue(c) == None

\* the FirebaseConfig call with the existence check left for later: the record
\* is built from the arguments as they are
LoadFirebase_Deferred ==
    /\ pc = "firebase"
    /\ firebase_config' = [type |-> "FirebaseConfig",
                           project_id |-> FirebaseArgs(env).project_id,
                           credentials_path |-> FirebaseArgs(env).credentials_path,
                           firestore_collection |-> "arats_trading_data",
                           realtime_database_ref |-> "arats/state"]
    /\ pc' = "exchange"
    /\ UNCHANGED <<env, files, exchange_config, risk_config, refresh_arg, recalc_arg,
                   config, outcome, log, obj, last, assigned, raw, parsed>>

\* firebase_config = FirebaseConfig(...): the call is entered; a missing file
\* takes the validator to its warning
LoadFirebase ==
    /\ pc = "firebase"
    /\ LET r == FirebaseConfig(FirebaseArgs(env), files)
       IN IF r.ok
          THEN /\ firebase_config' = r.value
               /\ pc' = "exchange"
               /\ outcome' = outcome
          ELSE IF r.logs # <<>>
          THEN /\ pc' = "firebase_warn"
               /\ UNCHANGED <<firebase_config, outcome>>
          ELSE /\ pc' = "done"
               /\ outcome' = Raised(r.error)
               /\ firebase_config' = firebase_config
    /\ UNCHANGED <<env, files, exchange_config, risk_config, refresh_arg, recalc_arg,
                   config, log, obj, last, assigned, raw, parsed>>

\* logger.warning("Firebase credentials file not found", path=v)
WarnCredentials ==
    /\ pc = "firebase_warn"
    /\ log' = log \o FirebaseConfig(FirebaseArgs(env), files).logs
    /\ pc' = "firebase_raise"
    /\ UNCHANGED <<env, files, firebase_config, exchange_config, risk_config,
                   refresh_arg, recalc_arg, config, outcome, obj, last, assigned, raw, parsed>>

\* raise FileNotFoundError(...): nothing in load_config handles it
RaiseCredentials ==
    /\ pc = "firebase_raise"
    /\ outcome' = Raised(FirebaseConfig(FirebaseArgs(env), files).error)
    /\ pc' = "done"
    /\ UNCHANGED <<env, files, firebase_config, exchange_config, risk_config,
                   refresh_arg, recalc_arg, config, log, obj, last, assigned, raw, parsed>>

\* exchange_config = ExchangeConfig(...)
LoadExchange ==
    /\ pc = "exchange"
    /\ LET r == ExchangeConfig(ExchangeArgs(env))
       IN IF r.ok
          THEN /\ exchange_config' = r.value
               /\ pc' = "risk"
               /\ outcome' = outcome
          ELSE /\ pc' = "done"
               /\ outcome' = Raised(r.error)
               /\ exchange_config' = exchange_config
    /\ UNCHANGED <<env, files, firebase_config, risk_config, refresh_arg, recalc_arg,
                   config, log, obj, last, assigned, raw, parsed>>

\* risk_config = RiskConfig()
LoadRisk ==
    /\ pc = "risk"
    /\ LET r == RiskConfig(<<>>)
       IN IF r.ok
          THEN /\ risk_config' = r.value
               /\ pc' = "refresh"
               /\ outcome' = outcome
          ELSE /\ pc' = "done"
               /\ outcome' = Raised(r.error)
               /\ risk_config' = risk_config
    /\ UNCHANGED <<env, files, firebase_config, exchange_config, refresh_arg, recalc_arg,
                   config, log, obj, last, assigned, raw, parsed>>

\* the coercion with the field's default substituted for a text int rejects
CoerceRefresh_Defaulting ==
    /\ pc = "refresh"
    /\ LET r == RefreshArg(env)
       IN refresh_arg' = IF r.ok THEN Some(r.value) ELSE Some(60)
    /\ pc' = "recalc"
    /\ UNCHANGED <<env, files, firebase_config, exchange_config, risk_config, recalc_arg,
                   config, outcome, log, obj, last, assigned, raw, parsed>>

\* the argument data_refresh_interval=int(...) is evaluated
CoerceRefresh ==
    /\ pc = "refresh"
    /\ LET r == RefreshArg(env)
       IN IF r.ok
          THEN /\ refresh_arg' = Some(r.value)
               /\ pc' = "recalc"
               /\ outcome' = outcome
          ELSE /\ pc' = "done"
               /\ outcome' = Raised(r.error)
               /\ refresh_arg' = refresh_arg
    /\ UNCHANGED <<env, files, firebase_config, exchange_config, risk_config, recalc_arg,
                   config, log, obj, last, assigned, raw, parsed>>

\* the argument risk_recalc_interval=int(...) is evaluated
CoerceRecalc ==
    /\ pc = "recalc"
    /\ LET r == RecalcArg(env)
       IN IF r.ok
          THEN /\ recalc_arg' = Some(r.value)
               /\ pc' = "main"
               /\ outcome' = outcome
          ELSE /\ pc' = "done"
               /\ outcome' = Raised(r.error)
               /\ recalc_arg' = recalc_arg
    /\ UNCHANGED <<env, files, firebase_config, exchange_config, risk_config, refresh_arg,
                   config, log, obj, last, assigned, raw, parsed>>

\* config = ARATSConfig(...)
CreateMainConfig ==
    /\ pc = "main"
    /\ LET r == ARATSConfig(MainArgs(env, firebase_config, exchange_config, risk_config,
                                     refresh_arg[1], recalc_arg[1]))
       IN IF r.ok
          THEN /\ config' = r.value
               /\ pc' = "info"
               /\ outcome' = outcome
          ELSE /\ pc' = "done"
               /\ outcome' = Raised(r.error)
               /\ config' = config
    /\ UNCHANGED <<env, files, firebase_config, exchange_config, risk_config, refresh_arg,
                   recalc_arg, log, obj, last, assigned, raw, parsed>>

\* logger.info("Configuration loaded successfully", project_id=..., exchange=...)
LogInfo ==
    /\ pc = "info"
    /\ log' = Append(log, [level |-> "info",
                           event |-> "Configuration loaded successfully",
                           project_id |-> config.firebase.project_id,
                           exchange |-> config.exchange.exchange_id])
    /\ pc' = "return"
    /\ UNCHANGED <<env, files, firebase_config, exchange_config, risk_config,
                   refresh_arg, recalc_arg, config, outcome, obj, last, assigned, raw, parsed>>

\* return
Return ==
    /\ pc = "return"
    /\ outcome' = Returned(ReturnValue(config))
    /\ pc' = "done"
    /\ UNCHANGED <<env, files, firebase_config, exchange_config, risk_config,
                   refresh_arg, recalc_arg, config, log, obj, last, assigned, raw, parsed>>

\* environments and filesystems load_config is started in
OtherCredentialsPath == "/tmp/valid.json"
Paths == {DefaultCredentialsPath, OtherCredentialsPath}
Opt(S) == {Unset} \cup {Some(v) : v \in S}

BoolTexts == {<<"t", "r", "u", "e">>, <<"T", "R", "U", "E">>, <<"f", "a", "l", "s", "e">>}
IntTexts == {<<"4", "5">>, <<"n", "o", "t", "a", "n", "u", "m", "b", "e", "r">>, <<>>,
             <<"-", "5">>, <<" ", "1", "_", "0">>, <<"1", ".", "5">>}
LevelTexts == {"DEBUG", "INFO", "WARNING", "ERROR", "info", "TRACE"}

Environments ==
    [FIREBASE_PROJECT_ID : Opt({"arats-prod"}),
     FIREBASE_CREDENTIALS_PATH : Opt({OtherCredentialsPath}),
     EXCHANGE_API_KEY : Opt({"key"}),
     EXCHANGE_API_SECRET : Opt({"secret"}),
     EXCHANGE_SANDBOX : Opt(BoolTexts),
     DATA_REFRESH_INTERVAL : Opt(IntTexts),
     RISK_RECALC_INTERVAL : Opt(IntTexts),
     LOGGING_LEVEL : Opt(LevelTexts),
     ENABLE_LIVE_TRADING : Opt(BoolTexts)]

Idle ==
    /\ obj = None
    /\ last = [op |-> "none"]
    /\ assigned = 0
    /\ raw = Unset
    /\ parsed = None

Init ==
    /\ env \in Environments
    /\ files \in SUBSET Paths
    /\ pc = "firebase"
    /\ firebase_config = None
    /\ exchange_config = None
    /\ risk_config = None
    /\ refresh_arg = Unset
    /\ recalc_arg = Unset
    /\ config = None
    /\ outcome = Pending
    /\ log = <<>>
    /\ Idle

Next ==
    \/ LoadFirebase
    \/ WarnCredentials
    \/ RaiseCredentials
    \/ LoadExchange
    \/ LoadRisk
    \/ CoerceRefresh
    \/ CoerceRecalc
    \/ CreateMainConfig
    \/ LogInfo
    \/ Return

Spec == Init /\ [][Next]_vars

-----------------------------------------------------------------------------
(* A client of the schema classes: it constructs entities from keyword      *)
(* arguments of its choice and assigns to the fields of the entity it holds *)

\* the keywords given, from a choice of Unset or Some(v) per keyword
Kw(f) == [k \in {n \in DOMAIN f : f[n] # Unset} |-> f[k][1]]

\* the two ends of a risk field's range and their outer neighbours
RiskTestValues(name) ==
    LET F == RiskFields[name]
    IN {F.ge - 1, F.ge, F.le, F.le + 1}

IntTestValues(default) == {-1, 0, default}

OtherScenarios == [flash_crash |-> -500]

FirebaseChoices ==
    [project_id : Opt({"arats-dev"}),
     credentials_path : Opt(Paths),
     firestore_collection : Opt({"other_collection"})]

ExchangeChoices ==
    [exchange_id : Opt(ExchangeIds \cup {"Binance", "ftx"}),
     api_key : Opt({Some("key")}),
     sandbox_mode : Opt(BOOLEAN),
     rate_limit : Opt(IntTestValues(1000)),
     timeout : Opt(IntTestValues(30000))]

RiskChoices ==
    [max_position_size_pct : Opt(RiskTestValues("max_position_size_pct")),
     max_daily_loss_pct : Opt(RiskTestValues("max_daily_loss_pct")),
     var_confidence_level : Opt(RiskTestValues("var_confidence_level")),
     stress_test_scenarios : Opt({OtherScenarios}),
     stop_loss_pct : Opt(RiskTestValues("stop_loss_pct")),
     take_profit_pct : Opt(RiskTestValues("take_profit_pct"))]

MainChoices ==
    [data_refresh_interval : Opt(IntTestValues(60)),
     logging_level : Opt(LevelTexts),
     enable_live_trading : Opt(BOOLEAN)]

\* the call record of a constructor call
Call(cls, kw, r) ==
    IF r.ok THEN [op |-> cls, kw |-> kw, ok |-> TRUE]
    ELSE [op |-> cls, kw |-> kw, ok |-> FALSE, error |-> r.error]

Constructed(r) == IF r.ok THEN r.value ELSE None

NewFirebase ==
    /\ last.op = "none"
    /\ \E f \in FirebaseChoices :
         LET r == FirebaseConfig(Kw(f), files)
         IN /\ obj' = Constructed(r)
            /\ last' = Call("FirebaseConfig", Kw(f), r)
            /\ log' = r.logs
    /\ UNCHANGED <<loadVars, assigned, raw, parsed>>

NewExchange ==
    /\ last.op = "none"
    /\ \E f \in ExchangeChoices :
         LET r == ExchangeConfig(Kw(f))
         IN /\ obj' = Constructed(r)
            /\ last' = Call("ExchangeConfig", Kw(f), r)
            /\ log' = r.logs
    /\ UNCHANGED <<loadVars, assigned, raw, parsed>>

NewRisk ==
    /\ last.op = "none"
    /\ \E f \in RiskChoices :
         LET r == RiskConfig(Kw(f))
         IN /\ obj' = Constructed(r)
            /\ last' = Call("RiskConfig", Kw(f), r)
            /\ log' = r.logs
    /\ UNCHANGED <<loadVars, assigned, raw, parsed>>

\* ARATSConfig over three components built with their defaults
NewMain ==
    /\ last.op = "none"
    /\ \E f \in MainChoices :
         LET kw == Kw(f) @@ [firebase |-> FirebaseConfig([project_id |-> "arats-dev"], files).value,
                             exchange |-> ExchangeConfig(<<>>).value,
                             risk |-> RiskConfig(<<>>).value]
             r == ARATSConfig(kw)
         IN /\ obj' = Constructed(r)
            /\ last' = Call("ARATSConfig", Kw(f), r)
            /\ log' = r.logs
    /\ UNCHANGED <<loadVars, assigned, raw, parsed>>

\* the values the client assigns to a field
FieldValues(cls, name) ==
    CASE cls = "RiskConfig" /\ name \in RiskFieldNames -> RiskTestValues(name)
      [] cls = "RiskConfig" /\ name = "stress_test_scenarios" -> {OtherScenarios}
      [] cls = "ExchangeConfig" /\ name = "exchange_id" -> ExchangeIds \cup {"ftx"}
      [] cls = "ExchangeConfig" /\ name \in {"rate_limit", "timeout"} -> IntTestValues(1000)
      [] cls = "ExchangeConfig" /\ name = "sandbox_mode" -> BOOLEAN
      [] cls = "ExchangeConfig" /\ name \in {"api_key", "api_secret"} -> Opt({"key"})
      [] cls = "FirebaseConfig" /\ name = "credentials_path" -> Paths \cup {"/nowhere"}
      [] cls = "FirebaseConfig" -> {"other"}
      [] cls = "ARATSConfig" /\ name = "logging_level" -> LevelTexts
      [] cls = "ARATSConfig" /\ name \in {"enable_live_trading", "enable_hedging"} -> BOOLEAN
      [] cls = "ARATSConfig" /\ name \in {"data_refresh_interval", "risk_recalc_interval",
                                          "feature_window"} -> IntTestValues(60)
      [] OTHER -> {}

\* the assignment on a frozen model: the field keeps its value
SetField_Frozen(o, name, v) == o

\* the effect of  o.name = v  on an entity: none of the classes sets
\* allow_mutation, frozen or validate_assignment, so the field takes v
SetField(o, name, v) == [o EXCEPT ![name] = v]

\* obj.name = v
SetAttr ==
    /\ obj # None
    /\ assigned < MaxAssign
    /\ assigned' = assigned + 1
    /\ \E name \in DOMAIN obj \ {"type"} :
         \E v \in FieldValues(obj.type, name) :
            /\ obj' = SetField(obj, name, v)
            /\ last' = [op |-> "setattr", name |-> name, value |-> v]
    /\ UNCHANGED <<loadVars, log, raw, parsed>>

InitEntity ==
    /\ env = [n \in EnvNames |-> Unset]
    /\ files \in SUBSET Paths
    /\ pc = "done"
    /\ firebase_config = None
    /\ exchange_config = None
    /\ risk_config = None
    /\ refresh_arg = Unset
    /\ recalc_arg = Unset
    /\ config = None
    /\ outcome = Pending
    /\ log = <<>>
    /\ Idle

NextEntity ==
    \/ NewFirebase
    \/ NewExchange
    \/ NewRisk
    \/ NewMain
    \/ SetAttr

SpecEntity == InitEntity /\ [][NextEntity]_vars

-----------------------------------------------------------------------------
(* The parsing expressions of load_config applied to one environment value  *)

BoolAlphabet == {"t", "T", "r", "R", "u", "U", "e", "E", "1"}
IntAlphabet == {"1", "0", "-", "+", " ", "_", "x"}

\* every text over an alphabet of at most n characters
Texts(alphabet, n) == UNION {[1..k -> alphabet] : k \in 0..n}

\* an environment in which at most the one variable is set
EnvWith(name, value) == [n \in EnvNames |-> IF n = name THEN value ELSE Unset]

ParseSandbox ==
    /\ parsed = None
    /\ parsed' = [of |-> "EXCHANGE_SANDBOX",
                  value |-> ExchangeArgs(EnvWith("EXCHANGE_SANDBOX", raw)).sandbox_mode]
    /\ UNCHANGED <<loadVars, log, obj, last, assigned, raw>>

ParseLiveTrading ==
    /\ parsed = None
    /\ parsed' = [of |-> "ENABLE_LIVE_TRADING",
                  value |-> LiveTradingArg(EnvWith("ENABLE_LIVE_TRADING", raw))]
    /\ UNCHANGED <<loadVars, log, obj, last, assigned, raw>>

ParseRefresh ==
    /\ parsed = None
    /\ parsed' = [of |-> "DATA_REFRESH_INTERVAL",
                  value |-> RefreshArg(EnvWith("DATA_REFRESH_INTERVAL", raw))]
    /\ UNCHANGED <<loadVars, log, obj, last, assigned, raw>>

ParseRecalc ==
    /\ parsed = None
    /\ parsed' = [of |-> "RISK_RECALC_INTERVAL",
                  value |-> RecalcArg(EnvWith("RISK_RECALC_INTERVAL", raw))]
    /\ UNCHANGED <<loadVars, log, obj, last, assigned, raw>>

InitParse ==
    /\ raw \in Opt(Texts(BoolAlphabet, MaxStrLen) \cup Texts(IntAlphabet, MaxStrLen))
    /\ parsed = None
    /\ env = [n \in EnvNames |-> Unset]
    /\ files = {}
    /\ pc = "done"
    /\ firebase_config = None
    /\ exchange_config = None
    /\ risk_config = None
    /\ refresh_arg = Unset
    /\ recalc_arg = Unset
    /\ config = None
    /\ outcome = Pending
    /\ log = <<>>
    /\ obj = None
    /\ last = [op |-> "none"]
    /\ assigned = 0

NextParse ==
    \/ ParseSandbox
    \/ ParseLiveTrading
    \/ ParseRefresh
    \/ ParseRecalc

SpecParse == InitParse /\ [][NextParse]_vars

-----------------------------------------------------------------------------
(* What the claims speak of, stated apart from the code above *)

\* a base-10 integer text: optional blanks, an optional sign, digits that may
\* be separated by single underscores, optional blanks
IsIntegerLiteral(s) ==
    \E i \in 0..Len(s) : \E j \in i..Len(s) :
        /\ \A k \in 1..i : s[k] = " "
        /\ \A k \in (j + 1)..Len(s) : s[k] = " "
        /\ LET m == SubSeq(s, i + 1, j)
               d == IF m # <<>> /\ m[1] \in {"+", "-"} THEN SubSeq(m, 2, Len(m)) ELSE m
           IN /\ d # <<>>
              /\ \A k \in 1..Len(d) :
                    \/ d[k] \in Digits
                    \/ /\ d[k] = "_"
                       /\ 1 < k
                       /\ k < Len(d)
                       /\ d[k - 1] \in Digits
                       /\ d[k + 1] \in Digits

\* some casing of the word true
IsCasingOfTrue(s) ==
    /\ Len(s) = 4
    /\ s[1] \in {"t", "T"}
    /\ s[2] \in {"r", "R"}
    /\ s[3] \in {"u", "U"}
    /\ s[4] \in {"e", "E"}

\* the texts load_config reads, defaults applied
CredentialsText == Getenv(env, "FIREBASE_CREDENTIALS_PATH", DefaultCredentialsPath)
RefreshText == Getenv(env, "DATA_REFRESH_INTERVAL", <<"6", "0">>)
RecalcText == Getenv(env, "RISK_RECALC_INTERVAL", <<"3", "0", "0">>)
LevelText == Getenv(env, "LOGGING_LEVEL", "INFO")

CredentialsMissing == CredentialsText \notin files
RefreshInvalid == ~IsIntegerLiteral(RefreshText)
RecalcInvalid == ~IsIntegerLiteral(RecalcText)
LevelInvalid == LevelText \notin {"DEBUG", "INFO", "WARNING", "ERROR"}

ValidInputs == ~CredentialsMissing /\ ~RefreshInvalid /\ ~RecalcInvalid /\ ~LevelInvalid

\* the error of the first step that fails, in the order of the steps
FirstError ==
    IF CredentialsMissing THEN [kind |-> "FileNotFoundError", fields |-> {"credentials_path"}]
    ELSE IF RefreshInvalid \/ RecalcInvalid THEN [kind |-> "ValueError", fields |-> {}]
    ELSE [kind |-> "ValidationError", fields |-> {"logging_level"}]

Warnings == {i \in 1..Len(log) : log[i].level = "warning"}
Infos == {i \in 1..Len(log) : log[i].level = "info"}

\* C1: for valid inputs load_config returns to its caller the assembled
\* ARATSConfig, whose fields equal the parsed or defaulted inputs
C1_ReturnsAssembledConfig ==
    (pc = "done" /\ ValidInputs) =>
        /\ outcome.kind = "return"
        /\ outcome.value.type = "ARATSConfig"
        /\ outcome.value = config
        /\ outcome.value.firebase.project_id = Getenv(env, "FIREBASE_PROJECT_ID", "arats-dev")
        /\ outcome.value.firebase.credentials_path = CredentialsText
        /\ outcome.value.exchange.api_key = env["EXCHANGE_API_KEY"]
        /\ outcome.value.exchange.api_secret = env["EXCHANGE_API_SECRET"]
        /\ outcome.value.logging_level = LevelText

\* C2: load_config is all-or-nothing: when a step fails the caller receives
\* that step's error as raised and no configuration object; nothing is
\* retried and no default stands in for the value that failed
C2_AllOrNothing ==
    /\ (pc = "done" /\ ~ValidInputs) => outcome = Raised(FirstError)
    /\ outcome.kind = "return" => ValidInputs
    /\ ~ValidInputs => config = None
    /\ (~CredentialsMissing /\ RefreshInvalid) => refresh_arg = Unset
    /\ (~CredentialsMissing /\ RecalcInvalid) => recalc_arg = Unset
    /\ CredentialsMissing => firebase_config = None

C2_Witness ==
    /\ pc = "done"
    /\ ~CredentialsMissing
    /\ env["RISK_RECALC_INTERVAL"] = Some(<<"1", ".", "5">>)
    /\ outcome = Raised([kind |-> "ValueError", fields |-> {}])
    /\ refresh_arg # Unset
    /\ config = None

C10_FixedOrder ==
    /\ (pc = "done" /\ CredentialsMissing) =>
          outcome = Raised([kind |-> "FileNotFoundError", fields |-> {"credentials_path"}])
    /\ exchange_config # None => firebase_config # None
    /\ risk_config # None => exchange_config # None
    /\ refresh_arg # Unset => risk_config # None
    /\ recalc_arg # Unset => refresh_arg # Unset
    /\ config # None => recalc_arg # Unset
    /\ Cardinality(Infos) <= 1
    /\ Infos # {} => (ValidInputs /\ config # None /\ outcome.kind # "raise")
    /\ outcome.kind = "return" => Infos # {}
    /\ outcome.kind = "raise" =>
          /\ pc = "done"
          /\ Infos = {}
          /\ config = None
          /\ outcome.error.kind = "FileNotFoundError" => exchange_config = None
          /\ outcome.error.kind = "ValueError" => recalc_arg = Unset
          /\ (RefreshInvalid /\ outcome.error.kind = "ValueError") => refresh_arg = Unset

C10_Witness ==
    /\ pc = "done"
    /\ CredentialsMissing
    /\ RefreshInvalid
    /\ LevelInvalid
    /\ outcome.kind = "raise"
    /\ outcome.error.kind = "FileNotFoundError"
    /\ exchange_config = None

\* the inclusive ranges of the risk percentages, in thousandths
DeclaredRange ==
    [max_position_size_pct |-> <<1, 100>>,
     max_daily_loss_pct    |-> <<10, 200>>,
     var_confidence_level  |-> <<900, 990>>,
     stop_loss_pct         |-> <<5, 100>>,
     take_profit_pct       |-> <<10, 200>>]

Within(n, v) == DeclaredRange[n][1] <= v /\ v <= DeclaredRange[n][2]

DeclaredExchangeIds == {"binance", "coinbase", "kraken", "bybit"}
DeclaredLevels == {"DEBUG", "INFO", "WARNING", "ERROR"}

ValidAsConstructed(o) ==
    CASE o.type = "RiskConfig" -> \A n \in DOMAIN DeclaredRange : Within(n, o[n])
      [] o.type = "ExchangeConfig" -> o.exchange_id \in DeclaredExchangeIds
      [] o.type = "ARATSConfig" -> o.logging_level \in DeclaredLevels
      [] o.type = "FirebaseConfig" ->
            "credentials_path" \in DOMAIN last.kw => o.credentials_path \in files

C9_NonNegative ==
    (obj.type = "ExchangeConfig" /\ assigned = 0) => (obj.rate_limit >= 0 /\ obj.timeout >= 0)

\* C9: ExchangeConfig puts no range on rate_limit and timeout: the integer
\* given, negative or not, is accepted and held as given, and 1000 and 30000
\* stand for the ones not given
C9_IntegersUnconstrained ==
    last.op = "ExchangeConfig" =>
        /\ last.ok = ("exchange_id" \in DOMAIN last.kw => last.kw["exchange_id"] \in DeclaredExchangeIds)
        /\ last.ok =>
              /\ obj.rate_limit = (IF "rate_limit" \in DOMAIN last.kw
                                   THEN last.kw["rate_limit"] ELSE 1000)
              /\ obj.timeout = (IF "timeout" \in DOMAIN last.kw
                                THEN last.kw["timeout"] ELSE 30000)

C9_Witness ==
    /\ last.op = "ExchangeConfig"
    /\ last.ok
    /\ obj.rate_limit = -1
    /\ obj.timeout = -1

\* C5: EXCHANGE_SANDBOX and ENABLE_LIVE_TRADING give true for every casing of
\* the word true and false for any other text; unset, the first gives true and
\* the second false
C5_BooleanParsing ==
    /\ (parsed # None /\ parsed.of = "EXCHANGE_SANDBOX") =>
          parsed.value = (IF raw = Unset THEN TRUE ELSE IsCasingOfTrue(raw[1]))
    /\ (parsed # None /\ parsed.of = "ENABLE_LIVE_TRADING") =>
          parsed.value = (IF raw = Unset THEN FALSE ELSE IsCasingOfTrue(raw[1]))

C5_Witness ==
    /\ parsed # None
    /\ parsed.of = "EXCHANGE_SANDBOX"
    /\ raw = Some(<<"T", "r", "U", "e">>)
    /\ parsed.value = TRUE

====
